---------------------------- MODULE Spec2Model ----------------------------
(***************************************************************************)
(* Model of tools/geocode.cjs, the geocode enrichment batch job: overrides, *)
(* cache, rate-limited lookups over fallback query variants, the distance  *)
(* acceptance test and the persistence of place files, cache and log.     *)
(*                                                                         *)
(* Strings are sequences of one-character strings.  Coordinates are whole  *)
(* numbers of a local grid whose step is 25 m, so that distances below,    *)
(* at and above the 50 m acceptance threshold all occur.                   *)
(***************************************************************************)
EXTENDS Integers, Sequences, FiniteSets, TLC

(***************************************************************************)
(* Bounds of the model                                                     *)
(***************************************************************************)
\* coordinates range over the grid points <<x, x % 2>>, x in 0..MaxLat
MaxLat == 3
\* longest candidate list the lookup service answers with
MaxResults == 2
\* most entries of the overrides file / of the cache file before the first run
MaxOverrides == 1
MaxCached == 1

(***************************************************************************)
(* CONFIG and the allow-lists                                              *)
(***************************************************************************)
maxAcceptableDistanceM == 50

allowedClasses == {"tourism", "historic", "amenity", "building", "leisure"}

allowedTypes == {"museum", "attraction", "church", "bridge", "monument",
                 "theatre", "tower", "square", "castle", "memorial"}

(***************************************************************************)
(* Pure helpers                                                            *)
(***************************************************************************)
Abs(n) == IF n < 0 THEN -n ELSE n

\* great-circle distance in whole metres (rounded down) between two grid
\* points; one grid step is 25 m in either direction, and over a few steps
\* the haversine formula is the planar distance
haversineDistance(lat1, lng1, lat2, lng2) ==
    LET dLat == lat2 - lat1
        dLng == lng2 - lng1
        sq   == 625 * (dLat * dLat + dLng * dLng)
    IN  CHOOSE r \in 0..(25 * (Abs(dLat) + Abs(dLng))) :
            r * r <= sq /\ sq < (r + 1) * (r + 1)

\* String.prototype.includes for one character
Includes(s, ch) == \E i \in 1..Len(s) : s[i] = ch

\* .replace(/&/g,' ')
RECURSIVE ReplaceAmp(_)
ReplaceAmp(s) ==
    IF s = <<>> THEN <<>>
    ELSE <<IF Head(s) = "&" THEN " " ELSE Head(s)>> \o ReplaceAmp(Tail(s))

\* .replace(/\s+/g,' '): every run of spaces becomes one space
RECURSIVE CollapseSpaces(_)
CollapseSpaces(s) ==
    IF Len(s) < 2 THEN s
    ELSE IF s[1] = " " /\ s[2] = " " THEN CollapseSpaces(Tail(s))
    ELSE <<Head(s)>> \o CollapseSpaces(Tail(s))

\* .replace(/[()]/g,'')
RECURSIVE StripParens(_)
StripParens(s) ==
    IF s = <<>> THEN <<>>
    ELSE IF Head(s) \in {"(", ")"} THEN StripParens(Tail(s))
    ELSE <<Head(s)>> \o StripParens(Tail(s))

\* .trim()
RECURSIVE TrimStart(_)
TrimStart(s) ==
    IF s # <<>> /\ Head(s) = " " THEN TrimStart(Tail(s)) ELSE s

RECURSIVE TrimEnd(_)
TrimEnd(s) ==
    IF s # <<>> /\ s[Len(s)] = " " THEN TrimEnd(SubSeq(s, 1, Len(s) - 1)) ELSE s

Trim(s) == TrimEnd(TrimStart(s))

sanitizeQuery(title) == Trim(StripParens(CollapseSpaces(ReplaceAmp(title))))

\* String.prototype.split(sep) for a one-character separator
RECURSIVE Split(_, _)
Split(s, sep) ==
    IF ~Includes(s, sep) THEN <<s>>
    ELSE LET i == CHOOSE k \in 1..Len(s) :
                      s[k] = sep /\ \A j \in 1..(k - 1) : s[j] # sep
         IN  <<SubSeq(s, 1, i - 1)>> \o Split(SubSeq(s, i + 1, Len(s)), sep)

\* the variants are returned as collected, duplicates included
DedupNone(seq) == seq

\* [...new Set(variants)]: first occurrences, in order
RECURSIVE Dedup(_)
Dedup(seq) ==
    IF seq = <<>> THEN <<>>
    ELSE LET front == Dedup(SubSeq(seq, 1, Len(seq) - 1))
             last  == seq[Len(seq)]
         IN  IF \E i \in 1..Len(front) : front[i] = last
             THEN front ELSE Append(front, last)

RECURSIVE MapSanitize(_)
MapSanitize(parts) ==
    IF parts = <<>> THEN <<>>
    ELSE <<sanitizeQuery(Head(parts))>> \o MapSanitize(Tail(parts))

generateFallbackQueries(title) ==
    LET clean == sanitizeQuery(title)
        v1 == <<clean>>
        v2 == IF Includes(clean, " ")
              THEN Append(v1, Split(clean, " ")[1]) ELSE v1
        v3 == IF Includes(title, "&")
              THEN v2 \o MapSanitize(Split(title, "&")) ELSE v2
    IN  Dedup(v3)


\* results of readJson / an await: <<>> is null or "no such file", <<v>> is v
Null == <<>>

Some(v) == <<v>>

\* readJson(p, def): the parsed content, def when the file cannot be read
readJson(file, def) == IF file = Null THEN def ELSE file[1]

\* the empty object {}
EmptyObject == <<>>

\* the assignment is forgotten
SetKeyForgotten(obj, key, value) == obj

\* obj[key] = value
SetKey(obj, key, value) ==
    [k \in (DOMAIN obj) \cup {key} |-> IF k = key THEN value ELSE obj[k]]

\* parseFloat of the decimal text the service answers with
parseFloat(text) == CHOOSE n \in 0..(MaxLat + 1) : ToString(n) = text

\* pickBestResult(results): results is Null or Some(candidate list)
RECURSIVE FirstAllowed(_)
FirstAllowed(list) ==
    IF list = <<>> THEN Null
    ELSE IF Head(list).class \in allowedClasses \/ Head(list).type \in allowedTypes
         THEN Some(Head(list))
         ELSE FirstAllowed(Tail(list))

AsResult(r) ==
    [lat |-> parseFloat(r.lat), lng |-> parseFloat(r.lon),
     displayName |-> r.display_name]

\* the allow-lists are ignored: the first candidate is taken
pickBestResultFirst(results) ==
    IF results = Null THEN Null
    ELSE LET list == results[1]
         IN  IF list # <<>> THEN Some(AsResult(list[1])) ELSE Null

pickBestResult(results) ==
    IF results = Null THEN Null
    ELSE LET list == results[1]
             hit  == FirstAllowed(list)
         IN  IF hit # Null THEN Some(AsResult(hit[1]))
             ELSE IF list # <<>> THEN Some(AsResult(list[1]))
             ELSE Null

\* the value queryNominatim returns for a response that did not throw
queryNominatimResult(resp) == IF ~resp.ok THEN Null ELSE Some(resp.data)

(***************************************************************************)
(* The inputs of the job                                                   *)
(***************************************************************************)
Coords == {<<x, x % 2>> : x \in 0..MaxLat}

\* the place files of CONFIG.placesDir, in directory order: slug of the file
\* name, whether the file has a places list, and the places: id, title.en
\* (an empty en is a place without an English title), lat and lng
PlaceFiles ==
    << [slug |-> <<"b", "n">>, hasPlaces |-> TRUE,
        places |-> << [id |-> <<"p">>, en |-> <<"a", "&", "b">>, lat |-> 0, lng |-> 0],
                      [id |-> <<"q">>, en |-> <<"a", "&", "b">>, lat |-> 1, lng |-> 1] >>],
       [slug |-> <<"x">>, hasPlaces |-> FALSE, places |-> <<>>],
       [slug |-> <<"u", "l">>, hasPlaces |-> TRUE,
        places |-> << [id |-> <<"c">>, en |-> <<>>, lat |-> 0, lng |-> 0] >>] >>

FileIds == 1..Len(PlaceFiles)

PlaceKeys == {k \in FileIds \X (1..2) : k[2] <= Len(PlaceFiles[k[1]].places)}

\* charAt(0).toUpperCase()
ToUpperCase(ch) ==
    CASE ch = "b" -> "B" [] ch = "u" -> "U" [] ch = "x" -> "X" [] OTHER -> ch

\* city = citySlug.charAt(0).toUpperCase() + citySlug.slice(1)
CityOf(slug) ==
    IF slug = <<>> THEN slug ELSE <<ToUpperCase(Head(slug))>> \o Tail(slug)

\* title = place.title?.en || place.id
TitleOf(place) == IF place.en # <<>> THEN place.en ELSE place.id

\* the key is built from the sanitized title
CacheKeySanitized(title, city) == sanitizeQuery(title) \o <<"|">> \o city

\* cacheKey = `${title}|${city}`
CacheKey(title, city) == title \o <<"|">> \o city

KeyOf(k) ==
    CacheKey(TitleOf(PlaceFiles[k[1]].places[k[2]]), CityOf(PlaceFiles[k[1]].slug))

PlaceIds == {PlaceFiles[k[1]].places[k[2]].id : k \in PlaceKeys}

CoordRecords == {[lat |-> c[1], lng |-> c[2]] : c \in Coords}

DisplayNames == {"Dom"}

CacheEntries ==
    {[lat |-> c[1], lng |-> c[2], displayName |-> n] : c \in Coords, n \in DisplayNames}

\* every object with at most n of the keys, and values from vals
Objects(keys, vals, n) ==
    UNION {[S -> vals] : S \in {T \in SUBSET keys : Cardinality(T) <= n}}

\* the content of a place file before the first run
InitialFile(f) ==
    [hasPlaces |-> PlaceFiles[f].hasPlaces, places |-> PlaceFiles[f].places]

\* what the lookup service can answer: one candidate at every grid point,
\* of an allow-listed class, of an allow-listed type, or of neither
CandidateKinds ==
    << <<"tourism", "residential">>, <<"highway", "museum">>, <<"highway", "residential">> >>

Candidates ==
    {[class |-> CandidateKinds[(c[1] % 3) + 1][1],
      type  |-> CandidateKinds[(c[1] % 3) + 1][2],
      lat |-> ToString(c[1]), lon |-> ToString(c[2]),
      display_name |-> n] : c \in Coords, n \in DisplayNames}

CandidateLists == UNION {[1..n -> Candidates] : n \in 0..MaxResults}

\* a response is a thrown network error, a non-success status, or a list
Responses ==
    {[throws |-> TRUE, ok |-> FALSE, data |-> <<>>],
     [throws |-> FALSE, ok |-> FALSE, data |-> <<>>]}
    \cup {[throws |-> FALSE, ok |-> TRUE, data |-> l] : l \in CandidateLists}


(***************************************************************************)
(* State                                                                   *)
(***************************************************************************)
VARIABLES
    placeFiles,     \* on disk: content of each place file
    cacheFile,      \* on disk: the cache file, Null when it does not exist
    overridesFile,  \* on disk: the overrides file
    logFile,        \* on disk: the log file, Null when it does not exist
    pc,             \* where main() is: idle, file, place, fetch, sleep, done, aborted
    dryRun,         \* args.includes('--dry-run')
    cache,          \* main: cache
    overrides,      \* main: overrides
    log,            \* main: log
    data,           \* main: the data object read for each file, Null before
    fileIdx,        \* position of the for-loop over files
    placeIdx,       \* position of the for-loop over data.places
    queries,        \* geocodePlace: queries
    queryIdx,       \* geocodePlace: position of the for-loop over queries
    request,        \* the fullQuery of the request in flight, Null when none
    best,           \* geocodePlace: pickBestResult of the answer being slept on
    outstanding,    \* number of requests in flight
    requests,       \* requests issued in this run
    delays,         \* rate-limit delays completed in this run
    lastResponse,   \* how the request that just returned ended
    how,            \* how each place was resolved in this run
    pre,            \* the files on disk when this run started
    secondRun,      \* TRUE in the second of two successive runs
    firstRun        \* what the first run did, once it is over

\* a function of geocode.cjs applied on its own
VARIABLES
    fn,             \* the name of the function, "none" when none is applied
    arg,            \* its argument
    ret             \* Null before it returns, Some(value) after

\* DataProvider
VARIABLES
    citiesJson,     \* on the server: the content of /data/cities.json
    cities,         \* useState: cities
    currentCity,    \* useState: currentCity, Null or Some(city)
    places,         \* useState: places
    loading,        \* useState: loading
    error,          \* useState: error, Null or Some(message)
    citiesLoadedRef, \* useRef: citiesLoadedRef.current
    effectRuns,     \* how often the mount effect has run
    load,           \* where loadCitiesAndFirstCity is
    calls,          \* the selectCity calls waiting for their fetch
    selects,        \* selectCity calls made so far
    fetches,        \* how often each resource has been fetched
    finished,       \* the load or selectCity call that ended last
    lastStarted     \* the selectCity call that was started last

\* AudioPlayer
VARIABLES
    audioSrc,       \* prop: audioSrc
    isPlaying,      \* useState: isPlaying
    currentTime,    \* useState: currentTime
    duration,       \* useState: duration
    isLoading,      \* useState: isLoading
    hasError,       \* useState: hasError
    audio,          \* audioRef.current: Null or Some(the audio element)
    promises,       \* the play() promises not yet settled
    sinceChange     \* what has happened since audioSrc last changed

jobVars == <<placeFiles, cacheFile, overridesFile, logFile, pc, dryRun, cache,
             overrides, log, data, fileIdx, placeIdx, queries, queryIdx, request,
             best, outstanding, requests, delays, lastResponse, how, pre,
             secondRun, firstRun>>

fnVars == <<fn, arg, ret>>

dataVars == <<citiesJson, cities, currentCity, places, loading, error,
              citiesLoadedRef, effectRuns, load, calls, selects, fetches, finished,
              lastStarted>>

audioVars == <<audioSrc, isPlaying, currentTime, duration, isLoading, hasError,
               audio, promises, sinceChange>>

vars == <<jobVars, fnVars, dataVars, audioVars>>

\* what the job does not touch
outsideJob == <<fnVars, dataVars, audioVars>>

disk == <<placeFiles, cacheFile, overridesFile, logFile>>

NoHow == [k \in PlaceKeys |-> "none"]

NoFirstRun == [over |-> FALSE, how |-> NoHow, completed |-> FALSE, written |-> {}]

\* the job is not running
JobIdle ==
    /\ placeFiles = [f \in FileIds |-> InitialFile(f)]
    /\ overridesFile = Some(EmptyObject)
    /\ cacheFile = Null
    /\ logFile = Null
    /\ pc = "idle"
    /\ dryRun = FALSE
    /\ cache = EmptyObject
    /\ overrides = EmptyObject
    /\ log = <<>>
    /\ data = [f \in FileIds |-> Null]
    /\ fileIdx = 1
    /\ placeIdx = 1
    /\ queries = <<>>
    /\ queryIdx = 1
    /\ request = Null
    /\ best = Null
    /\ outstanding = 0
    /\ requests = 0
    /\ delays = 0
    /\ lastResponse = "none"
    /\ how = NoHow
    /\ pre = [places |-> placeFiles, cache |-> cacheFile, log |-> logFile]
    /\ secondRun = FALSE
    /\ firstRun = NoFirstRun

\* no function is applied on its own
FnIdle ==
    /\ fn = "none"
    /\ arg = Null
    /\ ret = Null

\* no DataProvider is mounted
DataIdle ==
    /\ citiesJson = Null
    /\ cities = <<>>
    /\ currentCity = Null
    /\ places = <<>>
    /\ loading = TRUE
    /\ error = Null
    /\ citiesLoadedRef = FALSE
    /\ effectRuns = 0
    /\ load = "none"
    /\ calls = {}
    /\ selects = 0
    /\ fetches = <<>>
    /\ finished = Null
    /\ lastStarted = Null

\* no AudioPlayer is mounted
AudioIdle ==
    /\ audioSrc = 0
    /\ isPlaying = FALSE
    /\ currentTime = 0
    /\ duration = 0
    /\ isLoading = TRUE
    /\ hasError = FALSE
    /\ audio = Null
    /\ promises = <<>>
    /\ sinceChange = "none"

Init ==
    /\ placeFiles = [f \in FileIds |-> InitialFile(f)]
    /\ overridesFile \in {Some(o) : o \in Objects(PlaceIds, CoordRecords, MaxOverrides)}
    \* the job writes the cache file and the log file together: before its
    \* first writing run neither exists, after it both do
    /\ cacheFile \in {Null} \cup
           {Some(o) : o \in Objects({KeyOf(k) : k \in PlaceKeys}, CacheEntries, MaxCached)
                             \ {EmptyObject}}
    /\ logFile = IF cacheFile = Null THEN Null ELSE Some(<<"entry">>)
    /\ pc = "idle"
    /\ dryRun = FALSE
    /\ cache = EmptyObject
    /\ overrides = EmptyObject
    /\ log = <<>>
    /\ data = [f \in FileIds |-> Null]
    /\ fileIdx = 1
    /\ placeIdx = 1
    /\ queries = <<>>
    /\ queryIdx = 1
    /\ request = Null
    /\ best = Null
    /\ outstanding = 0
    /\ requests = 0
    /\ delays = 0
    /\ lastResponse = "none"
    /\ how = NoHow
    /\ pre = [places |-> placeFiles, cache |-> cacheFile, log |-> logFile]
    /\ secondRun = FALSE
    /\ firstRun = NoFirstRun
    /\ FnIdle
    /\ DataIdle
    /\ AudioIdle

(***************************************************************************)
(* main()                                                                  *)
(***************************************************************************)
\* the place the for-loop over data.places is at
Place == data[fileIdx][1].places[placeIdx]

City == CityOf(PlaceFiles[fileIdx].slug)

cacheKey == CacheKey(TitleOf(Place), City)

\* dist <= CONFIG.maxAcceptableDistanceM
CloseEnoughInclusive(place, c) ==
    haversineDistance(place.lat, place.lng, c.lat, c.lng) <= maxAcceptableDistanceM

\* dist < CONFIG.maxAcceptableDistanceM
CloseEnough(place, c) ==
    haversineDistance(place.lat, place.lng, c.lat, c.lng) < maxAcceptableDistanceM

\* only the latitude is copied
AdoptLatOnly(place, c) == [place EXCEPT !.lat = c.lat]

\* the title is lost when a coordinate is adopted
AdoptDropsTitle(place, c) == [place EXCEPT !.lat = c.lat, !.lng = c.lng, !.en = <<>>]

\* place.lat = c.lat; place.lng = c.lng
Adopt(place, c) == [place EXCEPT !.lat = c.lat, !.lng = c.lng]

\* the coordinate is adopted without the distance test
ResolveAlways(place, c) == Adopt(place, c)

\* the distance test of a cached or resolved coordinate c
Resolve(place, c) == IF CloseEnough(place, c) THEN place ELSE Adopt(place, c)

SetPlace(place) == [data EXCEPT ![fileIdx] = Some([@[1] EXCEPT !.places[placeIdx] = place])]

\* fetch(url, ...) of queryNominatim for query q of geocodePlace
IssueRequest(q) ==
    /\ request' = Some(q \o <<",", " ">> \o City)
    /\ outstanding' = outstanding + 1
    /\ requests' = requests + 1

\* the cache file is not read: every run starts from an empty cache
StartWithoutCache ==
    /\ pc = "idle"
    /\ dryRun' \in (IF secondRun THEN {FALSE} ELSE BOOLEAN)
    /\ cache' = EmptyObject
    /\ overrides' = readJson(overridesFile, EmptyObject)
    /\ log' = readJson(logFile, <<>>)
    /\ fileIdx' = 1
    /\ pre' = [places |-> placeFiles, cache |-> cacheFile, log |-> logFile]
    /\ pc' = "file"
    /\ UNCHANGED outsideJob
    /\ UNCHANGED <<disk, data, placeIdx, queries, queryIdx, request, best,
                   outstanding, requests, delays, lastResponse, how, secondRun,
                   firstRun>>

\* the top of main: read cache, overrides and log, list the place files
Start ==
    /\ pc = "idle"
    /\ dryRun' \in (IF secondRun THEN {FALSE} ELSE BOOLEAN)
    /\ cache' = readJson(cacheFile, EmptyObject)
    /\ overrides' = readJson(overridesFile, EmptyObject)
    /\ log' = readJson(logFile, <<>>)
    /\ fileIdx' = 1
    /\ pre' = [places |-> placeFiles, cache |-> cacheFile, log |-> logFile]
    /\ pc' = "file"
    /\ UNCHANGED outsideJob
    /\ UNCHANGED <<disk, data, placeIdx, queries, queryIdx, request, best,
                   outstanding, requests, delays, lastResponse, how, secondRun,
                   firstRun>>

\* for(const file of files): a file without places is skipped
SkipFile ==
    /\ pc = "file"
    /\ fileIdx <= Len(PlaceFiles)
    /\ ~placeFiles[fileIdx].hasPlaces
    /\ data' = [data EXCEPT ![fileIdx] = Some(placeFiles[fileIdx])]
    /\ fileIdx' = fileIdx + 1
    /\ UNCHANGED outsideJob
    /\ UNCHANGED <<disk, pc, dryRun, cache, overrides, log, placeIdx, queries,
                   queryIdx, request, best, outstanding, requests, delays,
                   lastResponse, how, pre, secondRun, firstRun>>

OpenFile ==
    /\ pc = "file"
    /\ fileIdx <= Len(PlaceFiles)
    /\ placeFiles[fileIdx].hasPlaces
    /\ data' = [data EXCEPT ![fileIdx] = Some(placeFiles[fileIdx])]
    /\ placeIdx' = 1
    /\ pc' = "place"
    /\ UNCHANGED outsideJob
    /\ UNCHANGED <<disk, dryRun, cache, overrides, log, fileIdx, queries,
                   queryIdx, request, best, outstanding, requests, delays,
                   lastResponse, how, pre, secondRun, firstRun>>

AtPlace == pc = "place" /\ placeIdx <= Len(data[fileIdx][1].places)

\* overrides are looked at only after the cache
HasOverrideUnlessCached(place) ==
    place.id \in DOMAIN overrides /\ CacheKey(TitleOf(place), City) \notin DOMAIN cache

\* if(overrides[place.id])
HasOverride(place) == place.id \in DOMAIN overrides

\* if(overrides[place.id]) { ... continue; }
ApplyOverride ==
    /\ AtPlace
    /\ HasOverride(Place)
    /\ data' = SetPlace(Adopt(Place, overrides[Place.id]))
    /\ how' = [how EXCEPT ![<<fileIdx, placeIdx>>] = "override"]
    /\ placeIdx' = placeIdx + 1
    /\ UNCHANGED outsideJob
    /\ UNCHANGED <<disk, pc, dryRun, cache, overrides, log, fileIdx, queries,
                   queryIdx, request, best, outstanding, requests, delays,
                   lastResponse, pre, secondRun, firstRun>>

\* if(cache[cacheKey]) { ... continue; }
CacheHit ==
    /\ AtPlace
    /\ ~HasOverride(Place)
    /\ cacheKey \in DOMAIN cache
    /\ data' = SetPlace(Resolve(Place, cache[cacheKey]))
    /\ how' = [how EXCEPT ![<<fileIdx, placeIdx>>] =
                  IF CloseEnough(Place, cache[cacheKey]) THEN "cacheKept" ELSE "cacheAdopted"]
    /\ placeIdx' = placeIdx + 1
    /\ UNCHANGED outsideJob
    /\ UNCHANGED <<disk, pc, dryRun, cache, overrides, log, fileIdx, queries,
                   queryIdx, request, best, outstanding, requests, delays,
                   lastResponse, pre, secondRun, firstRun>>

\* geocodePlace(title, city) up to the first await: the first variant is asked
CacheMiss ==
    /\ AtPlace
    /\ ~HasOverride(Place)
    /\ cacheKey \notin DOMAIN cache
    /\ queries' = generateFallbackQueries(TitleOf(Place))
    /\ queryIdx' = 1
    /\ IssueRequest(queries'[1])
    /\ pc' = "fetch"
    /\ UNCHANGED outsideJob
    /\ UNCHANGED <<disk, dryRun, cache, overrides, log, data, fileIdx, placeIdx,
                   best, delays, lastResponse, how, pre, secondRun, firstRun>>

\* fetch rejects (network error): nothing catches it and main() ends
FetchThrows ==
    /\ pc = "fetch"
    /\ \E resp \in Responses : resp.throws
    /\ outstanding' = outstanding - 1
    /\ request' = Null
    /\ lastResponse' = "throw"
    /\ pc' = "aborted"
    /\ UNCHANGED outsideJob
    /\ UNCHANGED <<disk, dryRun, cache, overrides, log, data, fileIdx, placeIdx,
                   queries, queryIdx, best, requests, delays, how, pre,
                   secondRun, firstRun>>

\* a non-success answer skips the sleep: the next variant is asked at once
FetchReturnsNoSleep ==
    /\ pc = "fetch"
    /\ \E resp \in Responses :
          /\ ~resp.throws
          /\ best' = pickBestResult(queryNominatimResult(resp))
          /\ lastResponse' = IF resp.ok THEN "ok" ELSE "notok"
          /\ IF ~resp.ok /\ queryIdx < Len(queries)
             THEN /\ queryIdx' = queryIdx + 1
                  /\ request' = Some(queries[queryIdx'] \o <<",", " ">> \o City)
                  /\ outstanding' = outstanding
                  /\ requests' = requests + 1
                  /\ pc' = "fetch"
             ELSE /\ queryIdx' = queryIdx
                  /\ request' = Null
                  /\ outstanding' = outstanding - 1
                  /\ requests' = requests
                  /\ pc' = "sleep"
    /\ UNCHANGED outsideJob
    /\ UNCHANGED <<disk, dryRun, cache, overrides, log, data, fileIdx, placeIdx,
                   queries, delays, how, pre, secondRun, firstRun>>

\* queryNominatim returns null or the candidates; geocodePlace starts to sleep
FetchReturns ==
    /\ pc = "fetch"
    /\ \E resp \in Responses :
          /\ ~resp.throws
          /\ best' = pickBestResult(queryNominatimResult(resp))
          /\ lastResponse' = IF resp.ok THEN "ok" ELSE "notok"
    /\ outstanding' = outstanding - 1
    /\ request' = Null
    /\ pc' = "sleep"
    /\ UNCHANGED outsideJob
    /\ UNCHANGED <<disk, dryRun, cache, overrides, log, data, fileIdx, placeIdx,
                   queries, queryIdx, requests, delays, how, pre, secondRun,
                   firstRun>>

\* the sleep is over and best is a match: geocodePlace returns it to main
Matched ==
    /\ pc = "sleep"
    /\ best # Null
    /\ delays' = delays + 1
    /\ cache' = SetKey(cache, cacheKey, best[1])
    /\ data' = SetPlace(Resolve(Place, best[1]))
    /\ how' = [how EXCEPT ![<<fileIdx, placeIdx>>] =
                  IF CloseEnough(Place, best[1]) THEN "freshKept" ELSE "freshAdopted"]
    /\ placeIdx' = placeIdx + 1
    /\ queries' = <<>>
    /\ queryIdx' = 1
    /\ best' = Null
    /\ lastResponse' = "none"
    /\ pc' = "place"
    /\ UNCHANGED outsideJob
    /\ UNCHANGED <<disk, dryRun, overrides, log, fileIdx, request, outstanding,
                   requests, pre, secondRun, firstRun>>

\* the loop position moves on but the variant just answered is asked again
NextVariantRepeats ==
    /\ pc = "sleep"
    /\ best = Null
    /\ queryIdx < Len(queries)
    /\ delays' = delays + 1
    /\ queryIdx' = queryIdx + 1
    /\ IssueRequest(queries[queryIdx])
    /\ lastResponse' = "none"
    /\ pc' = "fetch"
    /\ UNCHANGED outsideJob
    /\ UNCHANGED <<disk, dryRun, cache, overrides, log, data, fileIdx, placeIdx,
                   queries, best, how, pre, secondRun, firstRun>>

\* the sleep is over without a match: the next variant is asked
NextVariant ==
    /\ pc = "sleep"
    /\ best = Null
    /\ queryIdx < Len(queries)
    /\ delays' = delays + 1
    /\ queryIdx' = queryIdx + 1
    /\ IssueRequest(queries[queryIdx'])
    /\ lastResponse' = "none"
    /\ pc' = "fetch"
    /\ UNCHANGED outsideJob
    /\ UNCHANGED <<disk, dryRun, cache, overrides, log, data, fileIdx, placeIdx,
                   queries, best, how, pre, secondRun, firstRun>>

\* a place without any match ends the job with an error
NoResultAborts ==
    /\ pc = "sleep"
    /\ best = Null
    /\ queryIdx >= Len(queries)
    /\ delays' = delays + 1
    /\ pc' = "aborted"
    /\ UNCHANGED outsideJob
    /\ UNCHANGED <<disk, dryRun, cache, overrides, log, data, fileIdx, placeIdx,
                   queries, queryIdx, request, best, outstanding, requests,
                   lastResponse, how, pre, secondRun, firstRun>>

\* the sleep is over, no variant is left: geocodePlace returns null
NoResult ==
    /\ pc = "sleep"
    /\ best = Null
    /\ queryIdx >= Len(queries)
    /\ delays' = delays + 1
    /\ how' = [how EXCEPT ![<<fileIdx, placeIdx>>] = "noResult"]
    /\ placeIdx' = placeIdx + 1
    /\ queries' = <<>>
    /\ queryIdx' = 1
    /\ lastResponse' = "none"
    /\ pc' = "place"
    /\ UNCHANGED outsideJob
    /\ UNCHANGED <<disk, dryRun, cache, overrides, log, data, fileIdx, best,
                   request, outstanding, requests, pre, secondRun, firstRun>>

\* the place file is written in a dry run too
WriteFileAlways ==
    /\ pc = "place"
    /\ placeIdx > Len(data[fileIdx][1].places)
    /\ placeFiles' = [placeFiles EXCEPT ![fileIdx] = data[fileIdx][1]]
    /\ fileIdx' = fileIdx + 1
    /\ placeIdx' = 1
    /\ pc' = "file"
    /\ UNCHANGED outsideJob
    /\ UNCHANGED <<cacheFile, overridesFile, logFile, dryRun, cache, overrides,
                   log, data, queries, queryIdx, request, best, outstanding,
                   requests, delays, lastResponse, how, pre, secondRun, firstRun>>

\* the cache is saved after every file
WriteFileAndCache ==
    /\ pc = "place"
    /\ placeIdx > Len(data[fileIdx][1].places)
    /\ placeFiles' = IF dryRun THEN placeFiles
                     ELSE [placeFiles EXCEPT ![fileIdx] = data[fileIdx][1]]
    /\ cacheFile' = IF dryRun THEN cacheFile ELSE Some(cache)
    /\ fileIdx' = fileIdx + 1
    /\ placeIdx' = 1
    /\ pc' = "file"
    /\ UNCHANGED outsideJob
    /\ UNCHANGED <<overridesFile, logFile, dryRun, cache, overrides,
                   log, data, queries, queryIdx, request, best, outstanding,
                   requests, delays, lastResponse, how, pre, secondRun, firstRun>>

\* after the places of a file: if(!dryRun) writeJson(filePath, data)
WriteFile ==
    /\ pc = "place"
    /\ placeIdx > Len(data[fileIdx][1].places)
    /\ placeFiles' = IF dryRun THEN placeFiles
                     ELSE [placeFiles EXCEPT ![fileIdx] = data[fileIdx][1]]
    /\ fileIdx' = fileIdx + 1
    /\ placeIdx' = 1
    /\ pc' = "file"
    /\ UNCHANGED outsideJob
    /\ UNCHANGED <<cacheFile, overridesFile, logFile, dryRun, cache, overrides,
                   log, data, queries, queryIdx, request, best, outstanding,
                   requests, delays, lastResponse, how, pre, secondRun, firstRun>>

\* after the files: if(!dryRun) write the cache and the log; DONE
Finish ==
    /\ pc = "file"
    /\ fileIdx > Len(PlaceFiles)
    /\ cacheFile' = IF dryRun THEN cacheFile ELSE Some(cache)
    /\ logFile' = IF dryRun THEN logFile ELSE Some(log)
    /\ pc' = "done"
    /\ UNCHANGED outsideJob
    /\ UNCHANGED <<placeFiles, overridesFile, dryRun, cache, overrides, log,
                   data, fileIdx, placeIdx, queries, queryIdx, request, best,
                   outstanding, requests, delays, lastResponse, how, pre,
                   secondRun, firstRun>>

\* the job is run twice in succession, neither time as a dry run
Rerun ==
    /\ pc \in {"done", "aborted"}
    /\ ~dryRun
    /\ ~secondRun
    /\ secondRun' = TRUE
    /\ firstRun' = [over |-> TRUE, how |-> how, completed |-> pc = "done",
                    written |-> {f \in FileIds : f < fileIdx /\ placeFiles[f].hasPlaces}]
    /\ pc' = "idle"
    /\ dryRun' = FALSE
    /\ cache' = EmptyObject
    /\ overrides' = EmptyObject
    /\ log' = <<>>
    /\ data' = [f \in FileIds |-> Null]
    /\ fileIdx' = 1
    /\ placeIdx' = 1
    /\ queries' = <<>>
    /\ queryIdx' = 1
    /\ request' = Null
    /\ best' = Null
    /\ outstanding' = 0
    /\ requests' = 0
    /\ delays' = 0
    /\ lastResponse' = "none"
    /\ how' = NoHow
    /\ pre' = [places |-> placeFiles, cache |-> cacheFile, log |-> logFile]
    /\ UNCHANGED outsideJob
    /\ UNCHANGED disk

Next ==
    \/ Start
    \/ SkipFile
    \/ OpenFile
    \/ ApplyOverride
    \/ CacheHit
    \/ CacheMiss
    \/ FetchThrows
    \/ FetchReturns
    \/ Matched
    \/ NextVariant
    \/ NoResult
    \/ WriteFile
    \/ Finish
    \/ Rerun

Spec == Init /\ [][Next]_vars


(***************************************************************************)
(* pickBestResult and generateFallbackQueries applied to any argument      *)
(***************************************************************************)
\* the longest title
MaxTitleLen == 3

\* the characters of a title: letters, and the ones sanitizeQuery treats
TitleChars == {"a", "b", " ", "&", "(", ")"}

Titles == UNION {[1..n -> TitleChars] : n \in 0..MaxTitleLen}

\* the longest title handed to sanitizeQuery on its own
MaxSanitizeLen == 5

SanitizeTitles == UNION {[1..n -> TitleChars] : n \in 0..MaxSanitizeLen}

\* a candidate of every kind at every grid point
PickCandidates ==
    {[class |-> CandidateKinds[i][1], type |-> CandidateKinds[i][2],
      lat |-> ToString(c[1]), lon |-> ToString(c[2]),
      display_name |-> n] : i \in 1..Len(CandidateKinds), c \in Coords, n \in DisplayNames}

\* what queryNominatim can hand to pickBestResult: null, or a list
PickInputs ==
    {Null} \cup {Some(l) : l \in UNION {[1..n -> PickCandidates] : n \in 0..MaxResults}}

FnInit ==
    /\ \/ fn = "pickBestResult" /\ arg \in PickInputs
       \/ fn = "generateFallbackQueries" /\ arg \in Titles
       \/ fn = "sanitizeQuery" /\ arg \in SanitizeTitles
    /\ ret = Null
    /\ JobIdle
    /\ DataIdle
    /\ AudioIdle

\* pickBestResult(results)
CallPickBestResult ==
    /\ fn = "pickBestResult"
    /\ ret = Null
    /\ ret' = Some(pickBestResult(arg))
    /\ UNCHANGED <<fn, arg, jobVars, dataVars, audioVars>>

\* generateFallbackQueries(title)
CallGenerateFallbackQueries ==
    /\ fn = "generateFallbackQueries"
    /\ ret = Null
    /\ ret' = Some(generateFallbackQueries(arg))
    /\ UNCHANGED <<fn, arg, jobVars, dataVars, audioVars>>

\* sanitizeQuery(title), and then sanitizeQuery of what it returned
CallSanitizeQuery ==
    /\ fn = "sanitizeQuery"
    /\ Len(ret) < 2
    /\ ret' = Append(ret, sanitizeQuery(IF ret = Null THEN arg ELSE ret[1]))
    /\ UNCHANGED <<fn, arg, jobVars, dataVars, audioVars>>

FnNext ==
    \/ CallPickBestResult
    \/ CallGenerateFallbackQueries
    \/ CallSanitizeQuery

FnSpec == FnInit /\ [][FnNext]_vars


(***************************************************************************)
(* DataProvider                                                            *)
(***************************************************************************)
\* the cities of cities.json, the selectCity calls made, and the runs of
\* the mount effect (two under StrictMode)
MaxCities == 2

MaxSelects == 3

MaxEffectRuns == 2

CityIds == 1..MaxCities

\* '/data/cities.json' and the placesFile of a city
CitiesUrl == <<"cities", 0>>

PlacesFile(id) == <<"places", id>>

Resources == {CitiesUrl} \cup {PlacesFile(id) : id \in CityIds}

\* what the server can hold as cities.json: a file without a cities array,
\* or the cities, each enabled or not
CitiesFiles ==
    {[valid |-> FALSE, cities |-> <<>>]} \cup
    {[valid |-> TRUE,
      cities |-> [id \in CityIds |-> [id |-> id, placesFile |-> PlacesFile(id),
                                      enabled |-> e[id]]]] : e \in [CityIds -> BOOLEAN]}

\* the places array of the places file of a city
PlacesOf(id) == << <<"place", id>> >>

\* the answer to a fetch of a places file: OK with a places array, a
\* non-OK status, or OK without a places array
Outcomes == {"ok", "notOk", "invalid"}

\* data.cities.find(c => c.enabled)
FirstEnabled(list) ==
    IF \E i \in 1..Len(list) : list[i].enabled
    THEN Some(list[CHOOSE i \in 1..Len(list) :
                     list[i].enabled /\ \A j \in 1..(i - 1) : ~list[j].enabled])
    ELSE Null

\* cities.find(c => c.id === cityId)
Find(list, cityId) ==
    IF \E i \in 1..Len(list) : list[i].id = cityId
    THEN Some(list[CHOOSE i \in 1..Len(list) :
                     list[i].id = cityId /\ \A j \in 1..(i - 1) : list[j].id # cityId])
    ELSE Null

\* the message of the error a places response is turned into
PlacesFailure(outcome) ==
    IF outcome = "notOk" THEN "Failed to load places" ELSE "Invalid places file format"

NothingFinished == [op |-> "none", n |-> 0, failed |-> FALSE, message |-> ""]

Ended(op, n, message) == [op |-> op, n |-> n, failed |-> message # "", message |-> message]

NothingStarted ==
    [n |-> 0, city |-> 0, afterLoad |-> FALSE, overlapped |-> FALSE, status |-> "none"]

\* a load is waiting for the answer to a fetch
InFlight == calls # {} \/ load \in {"cities", "places"}

DataInit ==
    /\ citiesJson \in CitiesFiles
    /\ cities = <<>>
    /\ currentCity = Null
    /\ places = <<>>
    /\ loading = TRUE
    /\ error = Null
    /\ citiesLoadedRef = FALSE
    /\ effectRuns = 0
    /\ load = "none"
    /\ calls = {}
    /\ selects = 0
    /\ fetches = [r \in Resources |-> 0]
    /\ finished = NothingFinished
    /\ lastStarted = NothingStarted
    /\ JobIdle
    /\ FnIdle
    /\ AudioIdle

\* fetch(resource)
Fetch(resource) == fetches' = [fetches EXCEPT ![resource] = @ + 1]

\* the mount effect: the first run starts loadCitiesAndFirstCity, which
\* runs to its first await; a later run returns at once
MountEffect ==
    /\ effectRuns < MaxEffectRuns
    /\ effectRuns' = effectRuns + 1
    /\ IF citiesLoadedRef
       THEN UNCHANGED <<citiesLoadedRef, loading, error, load, fetches>>
       ELSE /\ citiesLoadedRef' = TRUE
            /\ loading' = TRUE
            /\ error' = Null
            /\ load' = "cities"
            /\ Fetch(CitiesUrl)
    /\ UNCHANGED <<citiesJson, cities, currentCity, places, calls, selects, finished>>
    /\ UNCHANGED lastStarted
    /\ UNCHANGED <<jobVars, fnVars, audioVars>>

\* the message of the error the cities response is turned into, "" if none
CitiesFailure(ok) ==
    IF ~ok THEN "Failed to load cities"
    ELSE IF ~citiesJson.valid THEN "Invalid cities.json format"
    ELSE IF FirstEnabled(citiesJson.cities) = Null THEN "No enabled cities found"
    ELSE ""

\* loadCitiesAndFirstCity from the answer for cities.json to the fetch of
\* the first city's places, or to the catch
CitiesResponse ==
    /\ load = "cities"
    /\ \E ok \in BOOLEAN :
          IF CitiesFailure(ok) # ""
          THEN /\ error' = Some(CitiesFailure(ok))
               /\ loading' = FALSE
               /\ load' = "failed"
               /\ finished' = Ended("load", 0, CitiesFailure(ok))
               /\ UNCHANGED fetches
          ELSE /\ load' = "places"
               /\ Fetch(FirstEnabled(citiesJson.cities)[1].placesFile)
               /\ UNCHANGED <<error, loading, finished>>
    /\ UNCHANGED <<citiesJson, cities, currentCity, places, citiesLoadedRef,
                   effectRuns, calls, selects>>
    /\ UNCHANGED lastStarted
    /\ UNCHANGED <<jobVars, fnVars, audioVars>>

\* loadCitiesAndFirstCity from the answer for the places to its end
PlacesResponse ==
    /\ load = "places"
    /\ \E outcome \in Outcomes :
          IF outcome = "ok"
          THEN /\ cities' = citiesJson.cities
               /\ currentCity' = FirstEnabled(citiesJson.cities)
               /\ places' = PlacesOf(FirstEnabled(citiesJson.cities)[1].id)
               /\ loading' = FALSE
               /\ load' = "done"
               /\ finished' = Ended("load", 0, "")
               /\ UNCHANGED error
          ELSE /\ error' = Some(PlacesFailure(outcome))
               /\ loading' = FALSE
               /\ load' = "failed"
               /\ finished' = Ended("load", 0, PlacesFailure(outcome))
               /\ UNCHANGED <<cities, currentCity, places>>
    /\ UNCHANGED <<citiesJson, citiesLoadedRef, effectRuns, calls, selects, fetches>>
    /\ UNCHANGED lastStarted
    /\ UNCHANGED <<jobVars, fnVars, audioVars>>

\* selectCity(cityId) for an id that cities does not hold: the throw, the
\* catch and the finally run at once
selectCityNotFound ==
    /\ selects < MaxSelects
    /\ \E cityId \in 0..MaxCities :
          /\ Find(cities, cityId) = Null
          /\ error' = Some("City not found")
          /\ loading' = FALSE
          /\ selects' = selects + 1
          /\ finished' = Ended("selectCity", selects', "City not found")
          /\ lastStarted' = [n |-> selects', city |-> cityId,
                             afterLoad |-> load = "done", overlapped |-> InFlight,
                             status |-> "City not found"]
    /\ UNCHANGED <<citiesJson, cities, currentCity, places, citiesLoadedRef,
                   effectRuns, load, calls, fetches>>
    /\ UNCHANGED <<jobVars, fnVars, audioVars>>

\* selectCity(cityId) up to its await: the places file of the city is fetched
selectCity ==
    /\ selects < MaxSelects
    /\ \E cityId \in 0..MaxCities :
          /\ Find(cities, cityId) # Null
          /\ loading' = TRUE
          /\ error' = Null
          /\ selects' = selects + 1
          /\ calls' = calls \cup {[n |-> selects', city |-> Find(cities, cityId)[1]]}
          /\ Fetch(Find(cities, cityId)[1].placesFile)
          /\ lastStarted' = [n |-> selects', city |-> cityId,
                             afterLoad |-> load = "done", overlapped |-> InFlight,
                             status |-> "pending"]
    /\ UNCHANGED <<citiesJson, cities, currentCity, places, citiesLoadedRef,
                   effectRuns, load, finished>>
    /\ UNCHANGED <<jobVars, fnVars, audioVars>>

\* a failed selectCity empties the list of places
SelectResponseClears ==
    /\ \E call \in calls, outcome \in Outcomes :
          /\ calls' = calls \ {call}
          /\ loading' = FALSE
          /\ lastStarted' =
                IF call.n # lastStarted.n THEN lastStarted
                ELSE [lastStarted EXCEPT !.status =
                         IF outcome = "ok" THEN "ok" ELSE PlacesFailure(outcome)]
          /\ IF outcome = "ok"
             THEN /\ places' = PlacesOf(call.city.id)
                  /\ currentCity' = Some(call.city)
                  /\ finished' = Ended("selectCity", call.n, "")
                  /\ UNCHANGED error
             ELSE /\ error' = Some(PlacesFailure(outcome))
                  /\ finished' = Ended("selectCity", call.n, PlacesFailure(outcome))
                  /\ places' = <<>>
                  /\ UNCHANGED currentCity
    /\ UNCHANGED <<citiesJson, cities, citiesLoadedRef, effectRuns, load, selects,
                   fetches>>
    /\ UNCHANGED <<jobVars, fnVars, audioVars>>

\* selectCity from the answer of its fetch to its end
SelectResponse ==
    /\ \E call \in calls, outcome \in Outcomes :
          /\ calls' = calls \ {call}
          /\ loading' = FALSE
          /\ lastStarted' =
                IF call.n # lastStarted.n THEN lastStarted
                ELSE [lastStarted EXCEPT !.status =
                         IF outcome = "ok" THEN "ok" ELSE PlacesFailure(outcome)]
          /\ IF outcome = "ok"
             THEN /\ places' = PlacesOf(call.city.id)
                  /\ currentCity' = Some(call.city)
                  /\ finished' = Ended("selectCity", call.n, "")
                  /\ UNCHANGED error
             ELSE /\ error' = Some(PlacesFailure(outcome))
                  /\ finished' = Ended("selectCity", call.n, PlacesFailure(outcome))
                  /\ UNCHANGED <<places, currentCity>>
    /\ UNCHANGED <<citiesJson, cities, citiesLoadedRef, effectRuns, load, selects,
                   fetches>>
    /\ UNCHANGED <<jobVars, fnVars, audioVars>>

DataNext ==
    \/ MountEffect
    \/ CitiesResponse
    \/ PlacesResponse
    \/ selectCityNotFound
    \/ selectCity
    \/ SelectResponse

DataSpec == DataInit /\ [][DataNext]_vars


(***************************************************************************)
(* AudioPlayer                                                             *)
(***************************************************************************)
\* the audio sources, the length of a track in seconds, and the play()
\* promises that can be pending at once
MaxSources == 2

MaxTime == 2

MaxPending == 2

Sources == 1..MaxSources

\* an audio element that has just been given its src: paused, at 0,
\* nothing loaded (readyState 0; 1 is metadata, 2 is enough to play)
NewAudio == [paused |-> TRUE, currentTime |-> 0, readyState |-> 0]

\* the render: the error box replaces the player, audio element included
Render(error_, el) ==
    IF error_ THEN Null ELSE IF el = Null THEN Some(NewAudio) ELSE el

\* something other than the settling of a play() promise has happened
Used == IF sinceChange = "none" THEN "none" ELSE "used"

\* seq without its i-th element
Without(seq, i) == SubSeq(seq, 1, i - 1) \o SubSeq(seq, i + 1, Len(seq))

AudioInit ==
    /\ audioSrc \in Sources
    /\ isPlaying = FALSE
    /\ currentTime = 0
    /\ duration = 0
    /\ isLoading = TRUE
    /\ hasError = FALSE
    /\ audio = Some(NewAudio)
    /\ promises = <<>>
    /\ sinceChange = "none"
    /\ JobIdle
    /\ FnIdle
    /\ DataIdle

\* the parent passes another audioSrc: the render gives it to the audio
\* element and the effect resets the state, pauses and rewinds
ChangeSource ==
    /\ \E src \in Sources \ {audioSrc} : audioSrc' = src
    /\ isPlaying' = FALSE
    /\ currentTime' = 0
    /\ duration' = 0
    /\ isLoading' = TRUE
    /\ hasError' = FALSE
    /\ audio' = Some(NewAudio)
    /\ sinceChange' = IF promises = <<>> THEN "quiet" ELSE "race"
    /\ UNCHANGED promises
    /\ UNCHANGED <<jobVars, fnVars, dataVars>>

\* the play button (disabled while loading) is pressed while playing
togglePlayPause ==
    /\ ~isLoading
    /\ audio # Null
    /\ ~hasError
    /\ isPlaying
    /\ audio' = Some([audio[1] EXCEPT !.paused = TRUE])
    /\ isPlaying' = FALSE
    /\ sinceChange' = Used
    /\ UNCHANGED <<audioSrc, currentTime, duration, isLoading, hasError, promises>>
    /\ UNCHANGED <<jobVars, fnVars, dataVars>>

\* the play button is pressed while not playing: togglePlay up to its await
togglePlay ==
    /\ ~isLoading
    /\ audio # Null
    /\ ~hasError
    /\ ~isPlaying
    /\ Len(promises) < MaxPending
    /\ audio' = Some([audio[1] EXCEPT !.paused = FALSE])
    /\ promises' = Append(promises, audioSrc)
    /\ sinceChange' = Used
    /\ UNCHANGED <<audioSrc, isPlaying, currentTime, duration, isLoading, hasError>>
    /\ UNCHANGED <<jobVars, fnVars, dataVars>>

\* a play() promise is fulfilled: togglePlay goes on after its await
PlayFulfilled ==
    /\ \E i \in 1..Len(promises) : promises' = Without(promises, i)
    /\ isPlaying' = TRUE
    /\ UNCHANGED <<audioSrc, currentTime, duration, isLoading, hasError, audio,
                   sinceChange>>
    /\ UNCHANGED <<jobVars, fnVars, dataVars>>

\* a play() promise is rejected: the catch of togglePlay
PlayRejected ==
    /\ \E i \in 1..Len(promises) : promises' = Without(promises, i)
    /\ hasError' = TRUE
    /\ isPlaying' = FALSE
    /\ audio' = Render(TRUE, audio)
    /\ UNCHANGED <<audioSrc, currentTime, duration, isLoading, sinceChange>>
    /\ UNCHANGED <<jobVars, fnVars, dataVars>>

\* onLoadedMetadata
handleLoadedMetadata ==
    /\ audio # Null
    /\ audio[1].readyState = 0
    /\ audio' = Some([audio[1] EXCEPT !.readyState = 1])
    /\ duration' = MaxTime
    /\ isLoading' = FALSE
    /\ UNCHANGED <<audioSrc, isPlaying, currentTime, hasError, promises, sinceChange>>
    /\ UNCHANGED <<jobVars, fnVars, dataVars>>

\* onCanPlay
handleCanPlay ==
    /\ audio # Null
    /\ audio[1].readyState = 1
    /\ audio' = Some([audio[1] EXCEPT !.readyState = 2])
    /\ isLoading' = FALSE
    /\ hasError' = FALSE
    /\ UNCHANGED <<audioSrc, isPlaying, currentTime, duration, promises, sinceChange>>
    /\ UNCHANGED <<jobVars, fnVars, dataVars>>

\* onError: the source cannot be loaded or decoded
handleError ==
    /\ audio # Null
    /\ hasError' = TRUE
    /\ isLoading' = FALSE
    /\ isPlaying' = FALSE
    /\ audio' = Render(TRUE, audio)
    /\ sinceChange' = Used
    /\ UNCHANGED <<audioSrc, currentTime, duration, promises>>
    /\ UNCHANGED <<jobVars, fnVars, dataVars>>

\* the element plays on by a second: onTimeUpdate
handleTimeUpdate ==
    /\ audio # Null
    /\ ~audio[1].paused
    /\ audio[1].readyState = 2
    /\ audio[1].currentTime < MaxTime
    /\ audio' = Some([audio[1] EXCEPT !.currentTime = @ + 1])
    /\ currentTime' = audio[1].currentTime + 1
    /\ UNCHANGED <<audioSrc, isPlaying, duration, isLoading, hasError, promises,
                   sinceChange>>
    /\ UNCHANGED <<jobVars, fnVars, dataVars>>

\* the element reaches the end of the track: onEnded
handleEnded ==
    /\ audio # Null
    /\ ~audio[1].paused
    /\ audio[1].readyState = 2
    /\ audio[1].currentTime = MaxTime
    /\ audio' = Some([audio[1] EXCEPT !.paused = TRUE])
    /\ isPlaying' = FALSE
    /\ UNCHANGED <<audioSrc, currentTime, duration, isLoading, hasError, promises,
                   sinceChange>>
    /\ UNCHANGED <<jobVars, fnVars, dataVars>>

\* the range input (disabled while loading) is moved
handleSeek ==
    /\ ~isLoading
    /\ audio # Null
    /\ \E time \in 0..MaxTime :
          /\ audio' = Some([audio[1] EXCEPT !.currentTime = time])
          /\ currentTime' = time
    /\ sinceChange' = Used
    /\ UNCHANGED <<audioSrc, isPlaying, duration, isLoading, hasError, promises>>
    /\ UNCHANGED <<jobVars, fnVars, dataVars>>

AudioNext ==
    \/ ChangeSource
    \/ togglePlayPause
    \/ togglePlay
    \/ PlayFulfilled
    \/ PlayRejected
    \/ handleLoadedMetadata
    \/ handleCanPlay
    \/ handleError
    \/ handleTimeUpdate
    \/ handleEnded
    \/ handleSeek

AudioSpec == AudioInit /\ [][AudioNext]_vars


(***************************************************************************)
(* Properties                                                              *)
(***************************************************************************)
Coord(p) == <<p.lat, p.lng>>

\* the place with key k: as main holds it, as the file has it, as it was
\* on disk when the run started, and as PlaceFiles names it
MemPlace(k) == data[k[1]][1].places[k[2]]

DiskPlace(k) == placeFiles[k[1]].places[k[2]]

PrePlace(k) == pre.places[k[1]].places[k[2]]

IdOf(k) == PlaceFiles[k[1]].places[k[2]].id

\* main is inside the loop over the places of file fileIdx
InFile == pc \in {"place", "fetch", "sleep", "aborted"}

\* the run has gone past place k
Passed(k) ==
    /\ pc # "idle"
    /\ \/ k[1] < fileIdx
       \/ k[1] = fileIdx /\ InFile /\ k[2] < placeIdx

\* the key of the place main is at
Here == <<fileIdx, placeIdx>>

\* square of the distance in metres between two grid points (step 25 m),
\* and the square of the 50 m threshold
Metres2(a, b) ==
    625 * ((a[1] - b[1]) * (a[1] - b[1]) + (a[2] - b[2]) * (a[2] - b[2]))

Threshold2 == 50 * 50

\* C1: a place whose id has an override ends with exactly the override's
\* lat/lng, whatever the cache holds for its key; processing it issues no
\* lookup request and adds no cache entry
C1_OverrideWins ==
    /\ [](\A k \in PlaceKeys :
            (Passed(k) /\ IdOf(k) \in DOMAIN overrides)
               => /\ Coord(MemPlace(k)) = Coord(overrides[IdOf(k)])
                  /\ (pc = "done" /\ ~dryRun)
                        => Coord(DiskPlace(k)) = Coord(overrides[IdOf(k)]))
    /\ [][\A k \in PlaceKeys :
             (AtPlace /\ k = Here /\ Place.id \in DOMAIN overrides)
                => /\ requests' = requests
                   /\ outstanding' = outstanding
                   /\ cache' = cache
                   /\ Passed(k)']_vars

C1_Witness ==
    \E k \in PlaceKeys :
        /\ pc = "done"
        /\ ~dryRun
        /\ IdOf(k) \in DOMAIN overrides
        /\ KeyOf(k) \in DOMAIN cache
        /\ Coord(cache[KeyOf(k)]) # Coord(overrides[IdOf(k)])
        /\ Coord(PrePlace(k)) # Coord(overrides[IdOf(k)])
        /\ Coord(DiskPlace(k)) = Coord(overrides[IdOf(k)])

\* C2: a lookup request that fails (non-success response or thrown network
\* error) is treated as "no candidates": the run goes on to the sleep with
\* no match and is not aborted
C2_FailureIsNoCandidates ==
    lastResponse \in {"throw", "notok"} => (pc = "sleep" /\ best = Null)

\* C3 as stated: the second of two successive runs changes no place's
\* lat/lng, whatever the lookup service answers
C3_SecondRunChangesNothing ==
    secondRun =>
        \A k \in PlaceKeys :
            /\ Coord(DiskPlace(k)) = Coord(PrePlace(k))
            /\ data[k[1]] # Null => Coord(MemPlace(k)) = Coord(PrePlace(k))

\* the first run wrote place k back after resolving it from an override, or
\* from a cached or matched coordinate that the cache file holds when the
\* second run starts, as it does after a first run that ran to its end
SettledByFirstRun(k) ==
    /\ k[1] \in firstRun.written
    /\ \/ firstRun.how[k] = "override"
       \/ /\ firstRun.how[k] \in {"cacheKept", "cacheAdopted", "freshKept", "freshAdopted"}
          /\ \/ firstRun.completed
             \/ KeyOf(k) \in DOMAIN readJson(pre.cache, EmptyObject)

\* C3 amended: the second run changes no place that the first run wrote
\* back after resolving it from an override, or from a cached or matched
\* coordinate that is in the cache file when the second run starts (every
\* such coordinate of a first run that ran to its end)
C3_SecondRunKeepsResolved ==
    secondRun =>
        \A k \in PlaceKeys :
            SettledByFirstRun(k)
               => /\ Coord(DiskPlace(k)) = Coord(PrePlace(k))
                  /\ data[k[1]] # Null => Coord(MemPlace(k)) = Coord(PrePlace(k))

C3_Witness ==
    /\ secondRun
    /\ firstRun.completed
    /\ pc = "done"
    /\ \E k \in PlaceKeys :
          /\ firstRun.how[k] = "freshAdopted"
          /\ how[k] = "cacheKept"
          /\ Coord(DiskPlace(k)) # Coord(PlaceFiles[k[1]].places[k[2]])

\* C4: a dry run never writes: at every point of the run and after it the
\* place files, the cache file and the log file are as before the run
C4_DryRunWritesNothing ==
    dryRun => /\ placeFiles = pre.places
              /\ cacheFile = pre.cache
              /\ logFile = pre.log

C4_Witness ==
    /\ dryRun
    /\ pc = "done"
    /\ cache # readJson(cacheFile, EmptyObject)
    /\ \E k \in PlaceKeys :
          /\ how[k] = "freshAdopted"
          /\ Coord(MemPlace(k)) # Coord(DiskPlace(k))
    /\ \E k \in PlaceKeys : how[k] = "override"

\* C5: at most one request is outstanding, a request is issued only when
\* the delay of every earlier request has completed, and the loops over
\* places and files go on only when every request has had its delay
C5_RateLimit ==
    /\ outstanding <= 1
    /\ requests <= delays + 1
    /\ pc \in {"place", "file", "done"} => requests = delays

C5_Witness ==
    /\ pc = "fetch"
    /\ requests = 3
    /\ delays = 2
    /\ outstanding = 1

\* C6: a place without an override whose key is cached at less than the
\* threshold from its coordinate keeps its lat/lng, and no request is made
C6_CloseCacheHitKeeps ==
    [][\A k \in PlaceKeys :
          (/\ AtPlace
           /\ k = Here
           /\ Place.id \notin DOMAIN overrides
           /\ cacheKey \in DOMAIN cache
           /\ Metres2(Coord(Place), Coord(cache[cacheKey])) < Threshold2)
             => /\ Coord(MemPlace(k)') = Coord(Place)
                /\ Passed(k)'
                /\ requests' = requests
                /\ outstanding' = outstanding]_vars

C6_Witness ==
    \E k \in PlaceKeys :
        /\ how[k] = "cacheKept"
        /\ Passed(k)
        /\ Coord(MemPlace(k)) # Coord(cache[KeyOf(k)])
        /\ Coord(MemPlace(k)) = Coord(PrePlace(k))

\* the cached or freshly resolved coordinate main is about to test against
\* the place it is at, Null when it is not at such a test
Offered ==
    IF AtPlace /\ Place.id \notin DOMAIN overrides /\ cacheKey \in DOMAIN cache
    THEN Some(Coord(cache[cacheKey]))
    ELSE IF pc = "sleep" /\ best # Null THEN Some(Coord(best[1]))
    ELSE Null

\* C7 as stated: the offered coordinate is adopted if and only if it is more
\* than the threshold away; at exactly the threshold it is not adopted
C7_AdoptedIffBeyondThreshold ==
    [][\A k \in PlaceKeys :
          (Offered # Null /\ k = Here)
             => IF Metres2(Coord(Place), Offered[1]) > Threshold2
                THEN Coord(MemPlace(k)') = Offered[1]
                ELSE Coord(MemPlace(k)') = Coord(Place)]_vars

\* C7 amended: the offered coordinate is adopted if and only if it is not
\* less than the threshold away; at exactly the threshold it is adopted
C7_AdoptedIffNotBelowThreshold ==
    [][\A k \in PlaceKeys :
          (Offered # Null /\ k = Here)
             => IF Metres2(Coord(Place), Offered[1]) >= Threshold2
                THEN Coord(MemPlace(k)') = Offered[1]
                ELSE Coord(MemPlace(k)') = Coord(Place)]_vars

C7_Witness ==
    \E k \in PlaceKeys :
        /\ how[k] \in {"cacheAdopted", "freshAdopted"}
        /\ Passed(k)
        /\ Metres2(Coord(PrePlace(k)), Coord(MemPlace(k))) = Threshold2

\* C8 as stated: after the run every place is either untouched because of an
\* override or a close-enough cache hit, or replaced by a freshly resolved
\* coordinate that was more than the threshold away
C8_UntouchedOrFreshlyReplaced ==
    pc = "done" =>
        \A k \in PlaceKeys :
            \/ /\ Coord(MemPlace(k)) = Coord(PrePlace(k))
               /\ how[k] \in {"override", "cacheKept"}
            \/ /\ how[k] = "freshAdopted"
               /\ Coord(MemPlace(k)) = Coord(cache[KeyOf(k)])
               /\ Metres2(Coord(PrePlace(k)), Coord(MemPlace(k))) > Threshold2

\* C8 amended: after the run a place with an override has the override's
\* coordinates; any other place is either unchanged, or has the cached or
\* freshly resolved coordinate of its key, which was not less than the
\* threshold away; and a run that is not a dry run has written just that
C8_OverrideUnchangedOrAdopted ==
    pc = "done" =>
        \A k \in PlaceKeys :
            /\ IF IdOf(k) \in DOMAIN overrides
               THEN Coord(MemPlace(k)) = Coord(overrides[IdOf(k)])
               ELSE \/ Coord(MemPlace(k)) = Coord(PrePlace(k))
                    \/ /\ KeyOf(k) \in DOMAIN cache
                       /\ Coord(MemPlace(k)) = Coord(cache[KeyOf(k)])
                       /\ Metres2(Coord(PrePlace(k)), Coord(MemPlace(k))) >= Threshold2
            /\ ~dryRun => DiskPlace(k) = MemPlace(k)

C8_Witness ==
    /\ pc = "done"
    /\ \E k \in PlaceKeys : how[k] = "override" /\ Coord(MemPlace(k)) # Coord(PrePlace(k))
    /\ \E k \in PlaceKeys : how[k] = "cacheAdopted"
    /\ \E k \in PlaceKeys : how[k] = "noResult"

\* some city is still unprocessed in a run that has started
CityLeft == pc \notin {"idle", "done"} /\ fileIdx <= Len(PlaceFiles)

\* C9 as stated: while a city is unprocessed no place file, cache file or
\* log file has been written
C9_NothingWrittenBeforeLastCity ==
    CityLeft => /\ placeFiles = pre.places
                /\ cacheFile = pre.cache
                /\ logFile = pre.log

\* C9 amended: while a city is unprocessed the cache file and the log file
\* have not been written, nor the place file of any unfinished city; the
\* place file of a finished city is written before the next city starts
C9_CacheAndLogWrittenLast ==
    CityLeft => /\ cacheFile = pre.cache
                /\ logFile = pre.log
                /\ \A f \in FileIds : f >= fileIdx => placeFiles[f] = pre.places[f]
                /\ \A f \in FileIds :
                      (f < fileIdx /\ ~dryRun /\ placeFiles[f].hasPlaces)
                         => placeFiles[f] = data[f][1]

C9_Witness ==
    /\ pc = "aborted"
    /\ ~dryRun
    /\ placeFiles # pre.places
    /\ cache # readJson(cacheFile, EmptyObject)

\* C10: when the last fallback variant of a place has been answered without
\* a match, the place keeps its lat/lng, no cache entry is added, and the
\* job goes on with the next place
C10_NoResultKeepsPlace ==
    /\ [](\A k \in PlaceKeys :
            how[k] = "noResult" => Coord(MemPlace(k)) = Coord(PrePlace(k)))
    /\ [][\A k \in PlaceKeys :
             (pc = "sleep" /\ k = Here /\ best = Null /\ queryIdx = Len(queries))
                => /\ MemPlace(k)' = Place
                   /\ cache' = cache
                   /\ pc' = "place"
                   /\ fileIdx' = fileIdx
                   /\ placeIdx' = placeIdx + 1]_vars

C10_Witness ==
    \E k \in PlaceKeys :
        /\ how[k] = "noResult"
        /\ pc = "done"
        /\ requests >= 3
        /\ KeyOf(k) \notin DOMAIN cache

\* the cache file as an object, and the one the run started from
CacheOnDisk == readJson(cacheFile, EmptyObject)

CacheAtStart == readJson(pre.cache, EmptyObject)

\* C11: the cache only grows during a run: every entry the run started
\* with is still in the cache and in the cache file, with the same value,
\* at every point of the run and after it; an entry of the cache is never
\* removed or given another value; and an entry is added only when the
\* lookup of the place main is at has produced a match, under the key of
\* that place and with that match as its value
C11_CacheOnlyGrows ==
    /\ [](\A key \in DOMAIN CacheAtStart :
            /\ key \in DOMAIN CacheOnDisk
            /\ CacheOnDisk[key] = CacheAtStart[key]
            /\ pc # "idle" => (key \in DOMAIN cache /\ cache[key] = CacheAtStart[key]))
    /\ [][(pc # "idle" /\ pc' # "idle")
             => /\ \A key \in DOMAIN cache :
                      key \in DOMAIN cache' /\ cache'[key] = cache[key]
                /\ \A key \in (DOMAIN cache') \ (DOMAIN cache) :
                      /\ pc = "sleep"
                      /\ best # Null
                      /\ key = cacheKey
                      /\ cache'[key] = best[1]]_vars

C11_Witness ==
    /\ pc = "done"
    /\ ~dryRun
    /\ CacheAtStart # EmptyObject
    /\ Cardinality(DOMAIN cache) = 2
    /\ cacheFile = Some(cache)
    /\ \E k \in PlaceKeys : how[k] = "noResult"

\* a place file without the coordinates of its places
Shape(file) ==
    [hasPlaces |-> file.hasPlaces,
     places |-> [i \in 1..Len(file.places) |-> [file.places[i] EXCEPT !.lat = 0, !.lng = 0]]]

\* C12: apart from lat and lng the job changes nothing in a place record:
\* the places of every file (number, order, ids, every other field) are the
\* same in memory and on disk as before the first run; the overrides are
\* only read: the overrides file is never written and the overrides main
\* holds never change during a run
C12_OnlyLatLngChange ==
    /\ [](\A f \in FileIds :
            /\ Shape(placeFiles[f]) = Shape(InitialFile(f))
            /\ data[f] # Null => Shape(data[f][1]) = Shape(InitialFile(f)))
    /\ [][/\ overridesFile' = overridesFile
          /\ (pc # "idle" /\ pc' # "idle") => overrides' = overrides]_vars

C12_Witness ==
    /\ pc = "done"
    /\ ~dryRun
    /\ overrides # EmptyObject
    /\ \E k \in PlaceKeys :
          /\ how[k] = "freshAdopted"
          /\ Coord(DiskPlace(k)) # Coord(PlaceFiles[k[1]].places[k[2]])
    /\ \E k \in PlaceKeys :
          /\ how[k] = "override"
          /\ Coord(DiskPlace(k)) # Coord(PlaceFiles[k[1]].places[k[2]])

\* the cached or matched coordinates
Fresh == {"freshKept", "freshAdopted"}

\* C15: during the lookup of a place the variants are those generated for
\* its title, one request is in flight at most, and the request in flight
\* is for the variant the loop is at; a request is issued either for the
\* first variant of a place that has neither override nor cache entry, or
\* for the next variant of the same place after an answer without a match;
\* after an answer with a match no request is issued for that place: main
\* goes on with the next place
C15_VariantsInOrder ==
    /\ [](pc \in {"fetch", "sleep"}
            => /\ queries = generateFallbackQueries(TitleOf(Place))
               /\ queryIdx \in 1..Len(queries)
               /\ outstanding <= 1
               /\ pc = "fetch"
                     => request = Some(queries[queryIdx] \o <<",", " ">> \o City))
    /\ [][(requests' # requests /\ pc' # "idle")
             => /\ requests' = requests + 1
                /\ pc' = "fetch"
                /\ Here' = Here
                /\ \/ /\ AtPlace
                      /\ Place.id \notin DOMAIN overrides
                      /\ cacheKey \notin DOMAIN cache
                      /\ queryIdx' = 1
                   \/ /\ pc = "sleep"
                      /\ best = Null
                      /\ queryIdx' = queryIdx + 1]_vars
    /\ [][(pc = "sleep" /\ best # Null)
             => /\ requests' = requests
                /\ outstanding' = 0
                /\ pc' = "place"
                /\ fileIdx' = fileIdx
                /\ placeIdx' = placeIdx + 1]_vars

C15_Witness ==
    /\ pc = "place"
    /\ Here = <<1, 2>>
    /\ how[<<1, 1>>] \in Fresh
    /\ requests = 2
    /\ delays = 2
    /\ Len(generateFallbackQueries(TitleOf(PlaceFiles[1].places[1]))) = 3

\* the title as the place file has it, and the city of the file
RawTitle(k) ==
    LET place == PlaceFiles[k[1]].places[k[2]]
    IN  IF place.en # <<>> THEN place.en ELSE place.id

\* place j comes before place k in the run
Earlier(j, k) == j[1] < k[1] \/ (j[1] = k[1] /\ j[2] < k[2])

\* C16: when the lookup of a place ends with a match, the match is stored
\* in the cache under the place's title as the file has it (not sanitized),
\* "|" and the city, whether or not the place adopts the match; a later
\* place of the same run with the same title and city, and no override, is
\* resolved from that entry (kept when closer than the threshold, otherwise
\* given the entry's coordinates) and no request is made for it
C16_MatchCachedUnderRawTitle ==
    /\ [][\A k \in PlaceKeys :
             (pc = "sleep" /\ best # Null /\ k = Here)
                => LET key == RawTitle(k) \o <<"|">> \o CityOf(PlaceFiles[k[1]].slug)
                   IN  /\ DOMAIN cache' = (DOMAIN cache) \cup {key}
                       /\ cache'[key] = best[1]]_vars
    /\ [][\A k \in PlaceKeys :
             (/\ AtPlace
              /\ k = Here
              /\ Place.id \notin DOMAIN overrides
              /\ \E j \in PlaceKeys :
                    /\ Earlier(j, k)
                    /\ RawTitle(j) = RawTitle(k)
                    /\ PlaceFiles[j[1]].slug = PlaceFiles[k[1]].slug
                    /\ how[j] \in Fresh)
                => \E key \in DOMAIN cache :
                      /\ key = RawTitle(k) \o <<"|">> \o CityOf(PlaceFiles[k[1]].slug)
                      /\ requests' = requests
                      /\ outstanding' = outstanding
                      /\ Passed(k)'
                      /\ Coord(MemPlace(k)') =
                            IF Metres2(Coord(Place), Coord(cache[key])) < Threshold2
                            THEN Coord(Place) ELSE Coord(cache[key])]_vars

C16_Witness ==
    /\ pc = "done"
    /\ how[<<1, 1>>] = "freshKept"
    /\ how[<<1, 2>>] = "cacheKept"
    /\ <<"a", "&", "b", "|", "B", "n">> \in DOMAIN cache
    /\ Coord(MemPlace(<<1, 1>>)) # Coord(cache[<<"a", "&", "b", "|", "B", "n">>])

\* place k as the run leaves it
FinalPlace(k) == IF data[k[1]] # Null THEN MemPlace(k) ELSE DiskPlace(k)

\* C19: no place's resolution affects another's: when the run is over a
\* place with an override has the override's coordinates, and a place
\* without one whose key was cached when the run started is resolved from
\* that entry, whatever happened to the places before it; and a step
\* changes the lat/lng of no place but the one main is at
C19_PlacesIndependent ==
    /\ [](pc \in {"done", "aborted"}
            => \A k \in PlaceKeys :
                  IF IdOf(k) \in DOMAIN overrides
                  THEN Coord(FinalPlace(k)) = Coord(overrides[IdOf(k)])
                  ELSE KeyOf(k) \in DOMAIN CacheAtStart
                          => FinalPlace(k) = Resolve(PrePlace(k), CacheAtStart[KeyOf(k)]))
    /\ [][\A k \in PlaceKeys :
             (/\ data[k[1]] # Null
              /\ data'[k[1]] # Null
              /\ Coord(MemPlace(k)') # Coord(MemPlace(k)))
                => k = Here]_vars

\* the part of C19 that does not depend on the run reaching every place
C19_StepChangesOnePlace ==
    [][\A k \in PlaceKeys :
          (/\ data[k[1]] # Null
           /\ data'[k[1]] # Null
           /\ Coord(MemPlace(k)') # Coord(MemPlace(k)))
             => k = Here]_vars

\* C19 holds of the runs that reach their end
C19_IndependentWhenCompleted ==
    pc = "done"
        => \A k \in PlaceKeys :
              IF IdOf(k) \in DOMAIN overrides
              THEN Coord(FinalPlace(k)) = Coord(overrides[IdOf(k)])
              ELSE KeyOf(k) \in DOMAIN CacheAtStart
                      => FinalPlace(k) = Resolve(PrePlace(k), CacheAtStart[KeyOf(k)])

\* a candidate whose class or type is allow-listed
AllowListed(c) == c.class \in allowedClasses \/ c.type \in allowedTypes

\* C17: pickBestResult returns no match for an absent or empty list;
\* otherwise the coordinates and display name of the first candidate whose
\* class or type is allow-listed, and of the first candidate of the list
\* when none is
C17_PickBestResult ==
    (fn = "pickBestResult" /\ ret # Null)
       => IF arg = Null THEN ret[1] = Null
          ELSE IF Len(arg[1]) = 0 THEN ret[1] = Null
          ELSE LET list == arg[1]
                   A    == {i \in 1..Len(list) : AllowListed(list[i])}
                   i0   == IF A # {} THEN CHOOSE i \in A : \A j \in A : i <= j ELSE 1
               IN  /\ ret[1] # Null
                   /\ ToString(ret[1][1].lat) = list[i0].lat
                   /\ ToString(ret[1][1].lng) = list[i0].lon
                   /\ ret[1][1].displayName = list[i0].display_name

C17_Witness ==
    /\ fn = "pickBestResult"
    /\ ret # Null
    /\ arg # Null
    /\ Len(arg[1]) = 2
    /\ ~AllowListed(arg[1][1])
    /\ arg[1][2].class \notin allowedClasses
    /\ arg[1][2].type \in allowedTypes
    /\ arg[1][1].lat # arg[1][2].lat
    /\ ToString(ret[1][1].lat) = arg[1][2].lat

\* the variants of a title as they are collected, before duplicates go
RawVariants(title) ==
    LET clean == sanitizeQuery(title)
    IN  <<clean>>
        \o (IF Includes(clean, " ") THEN <<Split(clean, " ")[1]>> ELSE <<>>)
        \o (IF Includes(title, "&") THEN MapSanitize(Split(title, "&")) ELSE <<>>)

FirstIndex(seq, x) ==
    CHOOSE i \in 1..Len(seq) : seq[i] = x /\ \A j \in 1..(i - 1) : seq[j] # x

\* C18: generateFallbackQueries returns a non-empty list whose first element
\* is the sanitized title, without duplicates, holding exactly the collected
\* variants in the order of their first occurrence; for a title with "&" it
\* holds the sanitized text of every "&"-delimited segment
C18_FallbackQueries ==
    (fn = "generateFallbackQueries" /\ ret # Null)
       => LET out == ret[1]
              raw == RawVariants(arg)
          IN  /\ Len(out) >= 1
              /\ out[1] = sanitizeQuery(arg)
              /\ \A i, j \in 1..Len(out) : i # j => out[i] # out[j]
              /\ {out[i] : i \in 1..Len(out)} = {raw[i] : i \in 1..Len(raw)}
              /\ \A i, j \in 1..Len(out) :
                    i < j => FirstIndex(raw, out[i]) < FirstIndex(raw, out[j])
              /\ Includes(arg, "&")
                    => \A i \in 1..Len(Split(arg, "&")) :
                          \E j \in 1..Len(out) : out[j] = sanitizeQuery(Split(arg, "&")[i])

C18_Witness ==
    /\ fn = "generateFallbackQueries"
    /\ arg = <<"a", "&", "b">>
    /\ ret = Some(<< <<"a", " ", "b">>, <<"a">>, <<"b">> >>)

\* C14 as stated: cities.json is fetched at most once and the places file
\* of each city is fetched at most once
C14_NoDuplicateFetches == \A r \in Resources : fetches[r] <= 1

\* the part of C14 that holds: however often the mount effect runs,
\* cities.json is fetched at most once
C14_CitiesFetchedOnce == fetches[CitiesUrl] <= 1

\* the messages of the errors a load or a selectCity call can end with
FailureMessages ==
    {"Failed to load cities", "Invalid cities.json format", "No enabled cities found",
     "Failed to load places", "Invalid places file format", "City not found"}

\* C20: the step in which a selectCity call or the initial load ends in
\* failure leaves cities, currentCity and places as they were, sets error to
\* the message of the failure and loading to false; after a failed initial
\* load cities is empty, currentCity is null and places is empty
C20_FailedLoadKeepsState ==
    /\ [][(finished' # finished /\ finished'.failed)
             => /\ cities' = cities
                /\ currentCity' = currentCity
                /\ places' = places
                /\ finished'.message \in FailureMessages
                /\ error' = Some(finished'.message)
                /\ loading' = FALSE]_vars
    /\ [](load = "failed" => (cities = <<>> /\ currentCity = Null /\ places = <<>>))

C20_Witness ==
    /\ finished.op = "selectCity"
    /\ finished.failed
    /\ finished.message = "Failed to load places"
    /\ error = Some("Failed to load places")
    /\ ~loading
    /\ cities # <<>>
    /\ currentCity # Null
    /\ places = PlacesOf(currentCity[1].id)
    /\ calls = {}

\* the player shows the new source stopped at its start, without an error
Stopped == ~isPlaying /\ currentTime = 0 /\ ~hasError

\* C13 as stated: from a change of the audio source until the user presses
\* play or seeks, or the new source fails to load, the player is stopped at
\* position 0 and shows no error, also when a play() promise was pending at
\* the change and is settled after it
C13_StoppedAfterSourceChange == sinceChange \in {"quiet", "race"} => Stopped

\* the part of C13 that holds: the same when no play() promise was pending
\* at the change
C13_StoppedWhenNothingPending == sinceChange = "quiet" => Stopped

\* C21 as stated: once no call is in flight the state reflects the
\* selectCity call that was started last (here: one started after the
\* initial load has succeeded): currentCity and places are its city's and
\* error is null if it succeeded, error is its message if it failed
C21_LastRequestWins ==
    (calls = {} /\ lastStarted.afterLoad)
       => IF lastStarted.status = "ok"
          THEN /\ currentCity # Null
               /\ currentCity[1].id = lastStarted.city
               /\ places = PlacesOf(lastStarted.city)
               /\ error = Null
          ELSE error = Some(lastStarted.status)

\* the part of C21 that holds: the same for a last call that was started
\* while no other load was in flight
C21_LastWinsWithoutOverlap ==
    (calls = {} /\ lastStarted.afterLoad /\ ~lastStarted.overlapped)
       => IF lastStarted.status = "ok"
          THEN /\ currentCity # Null
               /\ currentCity[1].id = lastStarted.city
               /\ places = PlacesOf(lastStarted.city)
               /\ error = Null
          ELSE error = Some(lastStarted.status)

\* C22 as stated: loading is true whenever a load (the initial load or a
\* selectCity call) is in flight
C22_LoadingWhileInFlight == InFlight => loading

\* the part of C22 that holds: loading is true while the initial load is in
\* flight and selectCity has not been called, and while the only load in
\* flight is a selectCity call started when none was in flight
C22_LoadingWhileOnlyLoad ==
    /\ (load \in {"cities", "places"} /\ selects = 0) => loading
    /\ (lastStarted.afterLoad /\ ~lastStarted.overlapped /\ lastStarted.status = "pending")
          => loading

\* s has no "&", no parenthesis and no space at either end
Stripped(s) ==
    /\ \A i \in 1..Len(s) : s[i] \notin {"&", "(", ")"}
    /\ s # <<>> => (s[1] # " " /\ s[Len(s)] # " ")

\* C23 as stated: what sanitizeQuery returns has no "&", no parenthesis,
\* no two consecutive spaces and no leading or trailing space, and
\* sanitizeQuery returns it unchanged
C23_SanitizeNormalizes ==
    (fn = "sanitizeQuery" /\ ret # Null)
       => /\ Stripped(ret[1])
          /\ \A i \in 1..(Len(ret[1]) - 1) : ~(ret[1][i] = " " /\ ret[1][i + 1] = " ")
          /\ Len(ret) = 2 => ret[2] = ret[1]

\* the part of C23 that holds: no "&", no parenthesis, no space at either
\* end; and a result without two consecutive spaces is returned unchanged
C23_SanitizeStrips ==
    (fn = "sanitizeQuery" /\ ret # Null)
       => /\ Stripped(ret[1])
          /\ (/\ Len(ret) = 2
              /\ \A i \in 1..(Len(ret[1]) - 1) : ~(ret[1][i] = " " /\ ret[1][i + 1] = " "))
                => ret[2] = ret[1]

=============================================================================
